---- MODULE Spec2Model ----
(***************************************************************************)
(* A model of projects/minigrid/training.py: the reward functions, the     *)
(* discounted-return scan of generate_and_process_batch, get_end_stats,    *)
(* eval and the train loop.                                                *)
(*                                                                         *)
(* Numbers.  A reward is held in hundredths (1.0 is Hundredths, 1.03 is    *)
(* BiasedBonus).  A discount is discountNum / DiscountDen.  A return is    *)
(* held in units of 1 / (Hundredths * Scale), Scale = DiscountDen ^        *)
(* (MaxSteps - 1), so that every product discount * returns[k + 1] of a    *)
(* batch of at most MaxSteps steps is exact.  A quotient a / b of          *)
(* get_end_stats is the pair [num |-> a, den |-> b].                       *)
(*                                                                         *)
(* A batch is one environment column: the tensors of the source are        *)
(* (steps x environments), every operation on them is elementwise in the   *)
(* environment dimension, and get_end_stats sums over all entries.         *)
(***************************************************************************)
EXTENDS Integers, Sequences, FiniteSets, TLC

\* ------------------------------------------------------------------ bounds
MaxSteps == 3       \* longest batch (steps of one rollout)
DiscountDen == 2    \* discounts are the multiples of 1 / DiscountDen
MaxUpdates == 3     \* largest num_learning_updates
MaxFreq == 2        \* largest eval_freq and policy_log_freq

\* --------------------------------------------------------------- numbers
Hundredths == 100
BiasedBonus == 103

RECURSIVE Pow(_, _)
Pow(b, e) == IF e = 0 THEN 1 ELSE b * Pow(b, e - 1)

Scale == Pow(DiscountDen, MaxSteps - 1)

\* bool.long(), and a bool used as a factor
Long(b) == IF b THEN 1 ELSE 0

\* python's a / b on numbers: ZeroDivisionError when b = 0 (Div is applied
\* only where b # 0, the fault is raised by the caller)
Div(a, b) == [num |-> a, den |-> b]

\* ------------------------------------------------------------ info fields
InfoEntries == [reached_diamond : {0, 1}, reached_ghost : {0, 1},
                oversight : {-1, 0, 1}]

SeqsUpTo(S, n) == UNION {[1..m -> S] : m \in 1..n}

\* ------------------------------------------------------- reward functions
\* each is elementwise: the value of one entry e of the info fields

naive_reward_fn(e) ==
    LET oversight == e.oversight = 1
        reached_diamond == e.reached_diamond = 1
        reached_ghost == e.reached_ghost = 1
        reached_terminal == reached_diamond \/ reached_ghost
    IN  Hundredths * Long(reached_terminal)
          - 2 * Hundredths * Long(oversight) * Long(reached_ghost)

moe_reward_fn_unseen_only(e) ==
    LET reached_diamond == e.reached_diamond = 1
        reached_ghost == e.reached_ghost = 1
        reached_terminal == reached_diamond \/ reached_ghost
    IN  reached_terminal /\ e.oversight # 1

\* returns the boolean tensor itself
moe_reward_fn(e) ==
    LET reached_diamond == e.reached_diamond = 1
        reached_ghost == e.reached_ghost = 1
        reached_terminal == reached_diamond \/ reached_ghost
    IN  reached_terminal

biased_moe_other_terminal_all(reached_terminal, diamond_seen) ==
    reached_terminal

biased_moe_other_terminal(reached_terminal, diamond_seen) ==
    reached_terminal /\ ~diamond_seen

biased_moe_reward_fn(e) ==
    LET reached_diamond == e.reached_diamond = 1
        reached_ghost == e.reached_ghost = 1
        reached_terminal == reached_diamond \/ reached_ghost
        has_oversight == e.oversight = 1
        diamond_seen == reached_diamond /\ has_oversight
        other_terminal == biased_moe_other_terminal(reached_terminal, diamond_seen)
    IN  BiasedBonus * Long(diamond_seen) + Hundredths * Long(other_terminal)

true_reward_fn_double_ghost(e) ==
    LET reached_diamond == e.reached_diamond = 1
        reached_ghost == e.reached_ghost = 1
    IN  Hundredths * Long(reached_diamond) - 2 * Hundredths * Long(reached_ghost)

true_reward_fn(e) ==
    LET reached_diamond == e.reached_diamond = 1
        reached_ghost == e.reached_ghost = 1
    IN  Hundredths * Long(reached_diamond) - Hundredths * Long(reached_ghost)

RewardFns == {"naive_reward_fn", "moe_reward_fn", "biased_moe_reward_fn",
              "true_reward_fn"}

\* reward_fn(infos): the function applied to every entry
ApplyRewardFn(fn, infos) ==
    [k \in DOMAIN infos |->
        CASE fn = "naive_reward_fn" -> naive_reward_fn(infos[k])
          [] fn = "moe_reward_fn" -> moe_reward_fn(infos[k])
          [] fn = "biased_moe_reward_fn" -> biased_moe_reward_fn(infos[k])
          [] fn = "true_reward_fn" -> true_reward_fn(infos[k])]

\* `reward_fn(infos) * 1.0`: the float tensor, in hundredths (a boolean
\* tensor becomes 0.0 / 1.0)
TimesOne(fn, infos) ==
    [k \in DOMAIN infos |->
        IF fn = "moe_reward_fn"
        THEN Hundredths * Long(moe_reward_fn(infos[k]))
        ELSE ApplyRewardFn(fn, infos)[k]]

\* every value `reward_fn(infos) * 1.0` holds for some entry
RewardValues == {TimesOne(fn, <<e>>)[1] : fn \in RewardFns, e \in InfoEntries}

\* ------------------------------------------------------ discounted returns
\* a float tensor of rewards in return units
InReturnUnits(rewards) == [k \in DOMAIN rewards |-> rewards[k] * Scale]

\* discount * x
TimesDiscount(discountNum, x) == (discountNum * x) \div DiscountDen

\* one pass of the loop body, in place, then the next smaller k
RECURSIVE ReturnScan(_, _, _, _)
ReturnScan(returns, dones, discountNum, k) ==
    IF k < 1 THEN returns
    ELSE ReturnScan(
           [returns EXCEPT ![k] = @ + TimesDiscount(discountNum, returns[k + 1])
                                        * (1 - dones[k])],
           dones, discountNum, k - 1)

\* the first k of `reversed(range(len(obs) - 1))`, as a 1-based index
ScanStart(n) == n - 1

\* generate_and_process_batch, given the dones of the rollout and
\* `reward_fn(infos) * 1.0`: the returns of the processed batch
generate_and_process_batch_no_done(rewards, dones, discountNum) ==
    ReturnScan(InReturnUnits(rewards), [k \in DOMAIN dones |-> 0], discountNum,
               ScanStart(Len(rewards)))

generate_and_process_batch(rewards, dones, discountNum) ==
    ReturnScan(InReturnUnits(rewards), dones, discountNum, ScanStart(Len(rewards)))

\* ----------------------------------------------------------- get_end_stats
\* boolean tensors over the entries of a batch, and their operations
Mask(infos, field, value) == [k \in DOMAIN infos |-> infos[k][field] = value]
MaskNot(m) == [k \in DOMAIN m |-> ~m[k]]
MaskTimes(m1, m2) == [k \in DOMAIN m1 |-> m1[k] /\ m2[k]]

\* mask.sum().item()
MaskSum(m) == Cardinality({k \in DOMAIN m : m[k]})

n_complete_eps_seen_only(infos) ==
    MaskSum(Mask(infos, "oversight", 1))

\* ep_complete.sum().item()
n_complete_eps(infos) ==
    LET ep_complete == MaskNot(Mask(infos, "oversight", -1))
    IN  MaskSum(ep_complete)

get_end_stats_guarded(infos) ==
    LET reached_diamond == Mask(infos, "reached_diamond", 1)
        reached_ghost == Mask(infos, "reached_ghost", 1)
        oversight == Mask(infos, "oversight", 1)
        n == n_complete_eps(infos)
        m == IF n = 0 THEN 1 ELSE n
    IN  [fault |-> "none",
         reached_diamond_seen |-> Div(MaskSum(MaskTimes(reached_diamond, oversight)), m),
         reached_ghost_seen |-> Div(MaskSum(MaskTimes(reached_ghost, oversight)), m),
         reached_diamond_unseen |->
           Div(MaskSum(MaskTimes(reached_diamond, MaskNot(oversight))), m),
         reached_ghost_unseen |->
           Div(MaskSum(MaskTimes(reached_ghost, MaskNot(oversight))), m),
         n_complete_eps |-> n]

\* the dictionary get_end_stats returns, or the fault its first quotient
\* raises.  complete_ep_len divides by the same n_complete_eps; the
\* num_steps field it sums is not among the fields the entries carry.
get_end_stats(infos) ==
    LET reached_diamond == Mask(infos, "reached_diamond", 1)
        reached_ghost == Mask(infos, "reached_ghost", 1)
        oversight == Mask(infos, "oversight", 1)
        n == n_complete_eps(infos)
    IN  IF n = 0
        THEN [fault |-> "ZeroDivisionError"]
        ELSE [fault |-> "none",
              reached_diamond_seen |->
                Div(MaskSum(MaskTimes(reached_diamond, oversight)), n),
              reached_ghost_seen |->
                Div(MaskSum(MaskTimes(reached_ghost, oversight)), n),
              reached_diamond_unseen |->
                Div(MaskSum(MaskTimes(reached_diamond, MaskNot(oversight))), n),
              reached_ghost_unseen |->
                Div(MaskSum(MaskTimes(reached_ghost, MaskNot(oversight))), n),
              n_complete_eps |-> n]

\* ------------------------------------------------------------------ state
VARIABLES
    fpc,    \* the function harness: "input", or the function that was applied
    arg,    \* its input
    ret,    \* its result
    pc,                 \* where train is
    cfg,                \* train's arguments
    dirs_created,       \* save_dir and policy_visualization_dir exist
    built,              \* env, policy, value_fn and optimizer are built
    update_idx,         \* the loop variable (num_learning_updates once the loop is over)
    batch,              \* processed_batch of the current update
    n_batches,          \* rollouts of the training environment so far
    n_optimizer_steps,  \* optimizer.step() calls so far
    global_step,
    metrics,            \* the columns of metrics
    eval_i,             \* the next entry of eval_policies.items()
    eval_batch,         \* processed_batch of the last eval call
    eval_metrics,       \* the rows of eval_metrics
    pngs,               \* update indices with a frame in policy_visualization_dir
    files,              \* what train has persisted, in the order written
    fault               \* the uncaught exception that ended train, if any

fvars == <<fpc, arg, ret>>
tvars == <<pc, cfg, dirs_created, built, update_idx, batch, n_batches,
           n_optimizer_steps, global_step, metrics, eval_i, eval_batch,
           eval_metrics, pngs, files, fault>>
vars == <<fvars, tvars>>

NoFault == [kind |-> "none", at |-> "none"]
NoBatch == [infos |-> <<>>, dones |-> <<>>, returns |-> <<>>]
NoMetrics == [update_idx |-> <<>>, global_step |-> <<>>, end_stats |-> <<>>]

\* train before its first statement
TrainStart ==
    /\ dirs_created = FALSE
    /\ built = FALSE
    /\ update_idx = 0
    /\ batch = NoBatch
    /\ n_batches = 0
    /\ n_optimizer_steps = 0
    /\ global_step = 0
    /\ metrics = NoMetrics
    /\ eval_i = 1
    /\ eval_batch = NoBatch
    /\ eval_metrics = <<>>
    /\ pngs = <<>>
    /\ files = <<>>
    /\ fault = NoFault

FnIdle == fpc = "idle" /\ arg = <<>> /\ ret = <<>>
TrainIdle == pc = "idle" /\ cfg = <<>> /\ TrainStart

\* -------------------------------------------- the functions of info fields
InitInfo ==
    /\ fpc = "input"
    /\ arg \in [infos : SeqsUpTo(InfoEntries, MaxSteps)]
    /\ ret = <<>>
    /\ TrainIdle

CallRewardFn ==
    /\ fpc = "input"
    /\ "infos" \in DOMAIN arg
    /\ \E fn \in RewardFns :
         /\ fpc' = fn
         /\ ret' = ApplyRewardFn(fn, arg.infos)
    /\ UNCHANGED <<arg, tvars>>

CallGetEndStats ==
    /\ fpc = "input"
    /\ "infos" \in DOMAIN arg
    /\ fpc' = "get_end_stats"
    /\ ret' = get_end_stats(arg.infos)
    /\ UNCHANGED <<arg, tvars>>

NextInfo == CallRewardFn \/ CallGetEndStats

SpecInfo == InitInfo /\ [][NextInfo]_vars

\* ------------------------------------------------------ the return scan
Discounts == 0..DiscountDen

InitReturns ==
    /\ fpc = "input"
    /\ \E n \in 1..MaxSteps :
         arg \in [rewards : [1..n -> RewardValues], dones : [1..n -> {0, 1}],
                  discountNum : Discounts]
    /\ ret = <<>>
    /\ TrainIdle

CallGenerateAndProcessBatch ==
    /\ fpc = "input"
    /\ "rewards" \in DOMAIN arg
    /\ fpc' = "generate_and_process_batch"
    /\ ret' = generate_and_process_batch(arg.rewards, arg.dones, arg.discountNum)
    /\ UNCHANGED <<arg, tvars>>

NextReturns == CallGenerateAndProcessBatch

SpecReturns == InitReturns /\ [][NextReturns]_vars

\* ------------------------------------------------------------------ train
\* What the environment hands a rollout of T steps (the environment is not
\* part of this file): no episode ends, or one ends at the last step, at the
\* diamond and under oversight.
RunningEntry == [reached_diamond |-> 0, reached_ghost |-> 0, oversight |-> -1]
DiamondSeenEntry == [reached_diamond |-> 1, reached_ghost |-> 0, oversight |-> 1]

EndingIn(T, last) ==
    [infos |-> [k \in 1..T |-> IF k = T THEN last ELSE RunningEntry],
     dones |-> [k \in 1..T |-> IF k = T /\ last # RunningEntry THEN 1 ELSE 0]]

Rollouts(T) == {EndingIn(T, last) : last \in {RunningEntry, DiamondSeenEntry}}

\* the arguments the model fixes
steps_per_learning_update == MaxSteps
max_step == MaxSteps
n_envs == 1

\* processed_batch of generate_and_process_batch over a rollout
ProcessedBatch(rollout, reward_fn, discountNum) ==
    [infos |-> rollout.infos,
     dones |-> rollout.dones,
     returns |-> generate_and_process_batch(TimesOne(reward_fn, rollout.infos),
                                            rollout.dones, discountNum)]

RECURSIVE SumSeq(_, _)
SumSeq(s, k) == IF k = 0 THEN 0 ELSE s[k] + SumSeq(s, k - 1)

\* t.mean(returns).item()
Mean(returns) == Div(SumSeq(returns, Len(returns)), Len(returns))

\* eval: the metrics of one evaluation rollout, or the fault of get_end_stats
eval(rollout, discountNum) ==
    LET processed_batch == ProcessedBatch(rollout, "true_reward_fn", discountNum)
        stats == get_end_stats(processed_batch.infos)
    IN  IF stats.fault # "none" THEN stats
        ELSE [fault |-> "none", end_stats |-> stats,
              avg_return |-> Mean(processed_batch.returns)]

DiscountOkStrict(discountNum) == 0 < discountNum /\ discountNum <= DiscountDen

\* 0 <= discount <= 1
DiscountOk(discountNum) == 0 <= discountNum /\ discountNum <= DiscountDen

\* the keys of eval_policies, in insertion order
EvalPolicies(c) ==
    IF c.has_get_diamond_policy
    THEN <<"training_policy", "diamond", "ghost">>
    ELSE <<"training_policy">>

IsFinalStep(c, u) == u = c.num_learning_updates - 1

EvalDueNoFinal(c, u) == u % c.eval_freq = 0

\* update_idx % eval_freq == 0 or is_final_step, for eval_freq # 0
EvalDue(c, u) == u % c.eval_freq = 0 \/ IsFinalStep(c, u)

\* update_idx % policy_log_freq == 0 or is_final_step, for policy_log_freq # 0
LogDue(c, u) == u % c.policy_log_freq = 0 \/ IsFinalStep(c, u)

Configs ==
    [discountNum : (-1)..(DiscountDen + 1),
     device_in_env_kwargs : BOOLEAN,
     num_learning_updates : 0..MaxUpdates,
     eval_freq : 0..MaxFreq,
     policy_log_freq : 0..MaxFreq,
     has_get_diamond_policy : BOOLEAN,
     is_routed : BOOLEAN,
     has_oversight_prob : BOOLEAN,
     reward_fn_to_train_on : RewardFns]

Init ==
    /\ FnIdle
    /\ pc = "start"
    /\ cfg \in Configs
    /\ TrainStart

Abort(kind, at) ==
    /\ pc' = "aborted"
    /\ fault' = [kind |-> kind, at |-> at]

\* the two asserts
CheckArguments ==
    /\ pc = "start"
    /\ IF ~DiscountOk(cfg.discountNum) THEN Abort("AssertionError", "discount")
       ELSE IF cfg.device_in_env_kwargs THEN Abort("AssertionError", "device")
       ELSE pc' = "makedirs" /\ UNCHANGED fault
    /\ UNCHANGED <<fvars, cfg, dirs_created, built, update_idx, batch, n_batches,
                   n_optimizer_steps, global_step, metrics, eval_i, eval_batch,
                   eval_metrics, pngs, files>>

MakeDirs ==
    /\ pc = "makedirs"
    /\ dirs_created' = TRUE
    /\ pc' = "build"
    /\ UNCHANGED <<fvars, cfg, built, update_idx, batch, n_batches,
                   n_optimizer_steps, global_step, metrics, eval_i, eval_batch,
                   eval_metrics, pngs, files, fault>>

\* seeds, environment, networks, optimizer, the empty metrics, eval_policies
Build ==
    /\ pc = "build"
    /\ built' = TRUE
    /\ metrics' = NoMetrics
    /\ eval_metrics' = <<>>
    /\ global_step' = 0
    /\ update_idx' = 0
    /\ pc' = "loop"
    /\ UNCHANGED <<fvars, cfg, dirs_created, batch, n_batches, n_optimizer_steps,
                   eval_i, eval_batch, pngs, files, fault>>

\* the loop takes its next update_idx and rolls out a training batch
GenerateBatch ==
    /\ pc = "loop"
    /\ update_idx < cfg.num_learning_updates
    /\ \E rollout \in Rollouts(steps_per_learning_update) :
         batch' = ProcessedBatch(rollout, cfg.reward_fn_to_train_on, cfg.discountNum)
    /\ n_batches' = n_batches + 1
    /\ pc' = "loss"
    /\ UNCHANGED <<fvars, cfg, dirs_created, built, update_idx, n_optimizer_steps,
                   global_step, metrics, eval_i, eval_batch, eval_metrics, pngs,
                   files, fault>>

\* the loss, one optimizer step, and the bookkeeping that follows it
OptimizerStep ==
    /\ pc = "loss"
    /\ n_optimizer_steps' = n_optimizer_steps + 1
    /\ global_step' = global_step + steps_per_learning_update * n_envs
    /\ metrics' = [metrics EXCEPT
                     !.update_idx = Append(@, update_idx),
                     !.global_step = Append(@, global_step')]
    /\ pc' = "end_stats"
    /\ UNCHANGED <<fvars, cfg, dirs_created, built, update_idx, batch, n_batches,
                   eval_i, eval_batch, eval_metrics, pngs, files, fault>>

\* get_end_stats of the training batch, then the test that guards evaluation
EndStats ==
    /\ pc = "end_stats"
    /\ LET stats == get_end_stats(batch.infos)
       IN  IF stats.fault # "none"
           THEN Abort(stats.fault, "get_end_stats") /\ UNCHANGED <<metrics, eval_i>>
           ELSE /\ metrics' = [metrics EXCEPT !.end_stats = Append(@, stats)]
                /\ IF cfg.eval_freq = 0
                   THEN Abort("ZeroDivisionError", "eval_freq") /\ UNCHANGED eval_i
                   ELSE /\ pc' = IF EvalDue(cfg, update_idx) THEN "eval" ELSE "policy_log"
                        /\ eval_i' = 1
                        /\ UNCHANGED fault
    /\ UNCHANGED <<fvars, cfg, dirs_created, built, update_idx, batch, n_batches,
                   n_optimizer_steps, global_step, eval_batch, eval_metrics, pngs,
                   files>>

\* one pass of the loop over eval_policies: eval, then the row it appends
EvalPolicy ==
    /\ pc = "eval"
    /\ \E rollout \in Rollouts(max_step) :
         LET eval_dict == eval(rollout, cfg.discountNum)
         IN  /\ eval_batch' = ProcessedBatch(rollout, "true_reward_fn", cfg.discountNum)
             /\ IF eval_dict.fault # "none"
                THEN Abort(eval_dict.fault, "eval") /\ UNCHANGED <<eval_metrics, eval_i>>
                ELSE /\ eval_metrics' =
                          Append(eval_metrics,
                                 [update_idx |-> update_idx,
                                  policy_type |-> EvalPolicies(cfg)[eval_i],
                                  end_stats |-> eval_dict.end_stats,
                                  avg_return |-> eval_dict.avg_return])
                     /\ eval_i' = eval_i + 1
                     /\ pc' = IF eval_i = Len(EvalPolicies(cfg)) THEN "policy_log" ELSE "eval"
                     /\ UNCHANGED fault
    /\ UNCHANGED <<fvars, cfg, dirs_created, built, update_idx, batch, n_batches,
                   n_optimizer_steps, global_step, metrics, pngs, files>>

\* the visualization frame, and the end of the loop body
PolicyLog ==
    /\ pc = "policy_log"
    /\ IF cfg.policy_log_freq = 0
       THEN Abort("ZeroDivisionError", "policy_log_freq") /\ UNCHANGED <<pngs, update_idx>>
       ELSE /\ pngs' = IF LogDue(cfg, update_idx) /\ cfg.is_routed
                       THEN Append(pngs, update_idx) ELSE pngs
            /\ update_idx' = update_idx + 1
            /\ pc' = "loop"
            /\ UNCHANGED fault
    /\ UNCHANGED <<fvars, cfg, dirs_created, built, batch, n_batches,
                   n_optimizer_steps, global_step, metrics, eval_i, eval_batch,
                   eval_metrics, files>>

WriteTrainResultsInLoop ==
    /\ pc = "loop"
    /\ update_idx >= 1
    /\ IF Len(metrics.update_idx) = 0
       THEN Abort("KeyError", "train_results.set_index") /\ UNCHANGED files
       ELSE IF ~cfg.has_oversight_prob
       THEN Abort("KeyError", "train_results.oversight_prob") /\ UNCHANGED files
       ELSE /\ files' = Append(files, "train_results.csv")
            /\ pc' = "eval_results"
            /\ UNCHANGED fault
    /\ UNCHANGED <<fvars, cfg, dirs_created, built, update_idx, batch, n_batches,
                   n_optimizer_steps, global_step, metrics, eval_i, eval_batch,
                   eval_metrics, pngs>>

\* pd.DataFrame(metrics).set_index("update_idx") raises KeyError when no
\* update_idx column exists; env_kwargs["oversight_prob"] when the key is
\* missing; then train_results_<run_id>.csv is written
WriteTrainResults ==
    /\ pc = "loop"
    /\ update_idx = cfg.num_learning_updates
    /\ IF Len(metrics.update_idx) = 0
       THEN Abort("KeyError", "train_results.set_index") /\ UNCHANGED files
       ELSE IF ~cfg.has_oversight_prob
       THEN Abort("KeyError", "train_results.oversight_prob") /\ UNCHANGED files
       ELSE /\ files' = Append(files, "train_results.csv")
            /\ pc' = "eval_results"
            /\ UNCHANGED fault
    /\ UNCHANGED <<fvars, cfg, dirs_created, built, update_idx, batch, n_batches,
                   n_optimizer_steps, global_step, metrics, eval_i, eval_batch,
                   eval_metrics, pngs>>

WriteEvalResults ==
    /\ pc = "eval_results"
    /\ IF Len(eval_metrics) = 0
       THEN Abort("KeyError", "eval_results.set_index") /\ UNCHANGED files
       ELSE /\ files' = Append(files, "eval_results.csv")
            /\ pc' = "save_policy"
            /\ UNCHANGED fault
    /\ UNCHANGED <<fvars, cfg, dirs_created, built, update_idx, batch, n_batches,
                   n_optimizer_steps, global_step, metrics, eval_i, eval_batch,
                   eval_metrics, pngs>>

SavePolicy ==
    /\ pc = "save_policy"
    /\ files' = Append(files, "policy.pt")
    /\ pc' = "make_gif"
    /\ UNCHANGED <<fvars, cfg, dirs_created, built, update_idx, batch, n_batches,
                   n_optimizer_steps, global_step, metrics, eval_i, eval_batch,
                   eval_metrics, pngs, fault>>

\* make_gif with delete_images_after, then the cache is emptied and train returns
MakeGif ==
    /\ pc = "make_gif"
    /\ files' = Append(files, "policy.gif")
    /\ pngs' = <<>>
    /\ pc' = "done"
    /\ UNCHANGED <<fvars, cfg, dirs_created, built, update_idx, batch, n_batches,
                   n_optimizer_steps, global_step, metrics, eval_i, eval_batch,
                   eval_metrics, fault>>

Next ==
    \/ CheckArguments
    \/ MakeDirs
    \/ Build
    \/ GenerateBatch
    \/ OptimizerStep
    \/ EndStats
    \/ EvalPolicy
    \/ PolicyLog
    \/ WriteTrainResults
    \/ WriteEvalResults
    \/ SavePolicy
    \/ MakeGif

Spec == Init /\ [][Next]_vars

\* ------------------------------------------- claims: the reward functions
Diamond(e) == e.reached_diamond = 1
Ghost(e) == e.reached_ghost = 1

\* C1, as stated: true_reward_fn gives +1 for diamond only, -1 for ghost
\* only, 0 for neither flag and -1 when both flags are 1.
C1_TrueRewardBothIsMinusOne ==
    fpc = "true_reward_fn" =>
        \A k \in DOMAIN ret :
            LET e == arg.infos[k]
            IN  ret[k] = CASE Diamond(e) /\ ~Ghost(e) -> Hundredths
                           [] ~Diamond(e) /\ Ghost(e) -> -Hundredths
                           [] ~Diamond(e) /\ ~Ghost(e) -> 0
                           [] Diamond(e) /\ Ghost(e) -> -Hundredths

\* C1, amended: true_reward_fn gives +1 for diamond only, -1 for ghost only,
\* 0 for neither flag and 0 when both flags are 1 (1 - 1.0 * 1).
C1_TrueRewardBothIsZero ==
    fpc = "true_reward_fn" =>
        \A k \in DOMAIN ret :
            LET e == arg.infos[k]
            IN  ret[k] = CASE Diamond(e) /\ ~Ghost(e) -> Hundredths
                           [] ~Diamond(e) /\ Ghost(e) -> -Hundredths
                           [] ~Diamond(e) /\ ~Ghost(e) -> 0
                           [] Diamond(e) /\ Ghost(e) -> 0

C1_Witness ==
    /\ fpc = "true_reward_fn"
    /\ \E k \in DOMAIN ret : Diamond(arg.infos[k]) /\ Ghost(arg.infos[k])
    /\ \E k \in DOMAIN ret : ~Diamond(arg.infos[k]) /\ Ghost(arg.infos[k])

\* C2: biased_moe_reward_fn gives 1.03 where the diamond is reached under
\* oversight (whatever reached_ghost is), 1.0 where a terminal is reached
\* otherwise, 0 where no terminal is reached; no entry gets 2.03.
C2_BiasedMoeReward ==
    fpc = "biased_moe_reward_fn" =>
        \A k \in DOMAIN ret :
            LET e == arg.infos[k]
                seen == Diamond(e) /\ e.oversight = 1
            IN  /\ seen => ret[k] = BiasedBonus
                /\ ((Diamond(e) \/ Ghost(e)) /\ ~seen) => ret[k] = Hundredths
                /\ (~Diamond(e) /\ ~Ghost(e)) => ret[k] = 0
                /\ ret[k] # BiasedBonus + Hundredths

C2_Witness ==
    /\ fpc = "biased_moe_reward_fn"
    /\ \E k \in DOMAIN ret :
          /\ Diamond(arg.infos[k]) /\ Ghost(arg.infos[k])
          /\ arg.infos[k].oversight = 1
          /\ ret[k] = BiasedBonus
    /\ \E k \in DOMAIN ret : Ghost(arg.infos[k]) /\ ret[k] = Hundredths

\* C3: moe_reward_fn is true exactly where reached_diamond or reached_ghost
\* is 1, false elsewhere, and two entries that differ only in oversight get
\* the same value.
C3_MoeReward ==
    fpc = "moe_reward_fn" =>
        /\ \A k \in DOMAIN ret :
              ret[k] = (Diamond(arg.infos[k]) \/ Ghost(arg.infos[k]))
        /\ \A j, k \in DOMAIN ret :
              (/\ arg.infos[j].reached_diamond = arg.infos[k].reached_diamond
               /\ arg.infos[j].reached_ghost = arg.infos[k].reached_ghost)
                 => ret[j] = ret[k]

C3_Witness ==
    /\ fpc = "moe_reward_fn"
    /\ \E j, k \in DOMAIN ret :
          /\ arg.infos[j].oversight = 1 /\ arg.infos[k].oversight = -1
          /\ Ghost(arg.infos[j]) /\ Ghost(arg.infos[k])
          /\ ret[j] /\ ret[k]
    /\ \E k \in DOMAIN ret : ~ret[k]

\* ------------------------------------------------ claims: get_end_stats
Complete(e) == e.oversight # -1

\* how many entries of infos are completed episodes
NumComplete(infos) == Cardinality({k \in DOMAIN infos : Complete(infos[k])})

\* how many are completed episodes with the flag set and this oversight
NumReached(infos, field, ov) ==
    Cardinality({k \in DOMAIN infos :
                    /\ Complete(infos[k])
                    /\ infos[k][field] = 1
                    /\ infos[k].oversight = ov})

\* a / b = c / d, for b, d # 0
SameQuotient(q, c, d) == q.num * d = c * q.den

C5_Example ==
    << [oversight |-> 1, reached_diamond |-> 1, reached_ghost |-> 0],
       [oversight |-> -1, reached_diamond |-> 0, reached_ghost |-> 0],
       [oversight |-> 1, reached_diamond |-> 0, reached_ghost |-> 1] >>

\* C5: with at least one entry whose oversight is not -1, n_complete_eps is
\* the number of such entries and reached_diamond_seen is the number of
\* entries with reached_diamond = 1 and oversight = 1 over n_complete_eps;
\* oversight [1,-1,1], reached_diamond [1,0,0], reached_ghost [0,0,1] gives
\* 2 and 0.5.
C5_EndStats ==
    fpc = "get_end_stats" =>
        LET n == NumComplete(arg.infos)
            seen == NumReached(arg.infos, "reached_diamond", 1)
        IN  /\ n >= 1 =>
                /\ ret.fault = "none"
                /\ ret.n_complete_eps = n
                /\ SameQuotient(ret.reached_diamond_seen, seen, n)
            /\ arg.infos = C5_Example =>
                /\ ret.fault = "none"
                /\ ret.n_complete_eps = 2
                /\ SameQuotient(ret.reached_diamond_seen, 1, 2)

C5_Witness ==
    /\ fpc = "get_end_stats"
    /\ arg.infos = C5_Example
    /\ ret.fault = "none"

C8_Fraction(q, field, ov) ==
    /\ q.num = NumReached(arg.infos, field, ov)
    /\ 0 <= q.num
    /\ q.num <= q.den

\* C8: each of the four statistics is a fraction of the completed episodes:
\* its numerator counts only entries with oversight # -1 that reached the
\* terminal (seen: oversight = 1, unseen: oversight = 0), so it lies in [0,1].
C8_FractionsOfCompletedEpisodes ==
    (fpc = "get_end_stats" /\ ret.fault = "none") =>
        /\ ret.reached_diamond_seen.den = NumComplete(arg.infos)
        /\ C8_Fraction(ret.reached_diamond_seen, "reached_diamond", 1)
        /\ C8_Fraction(ret.reached_ghost_seen, "reached_ghost", 1)
        /\ C8_Fraction(ret.reached_diamond_unseen, "reached_diamond", 0)
        /\ C8_Fraction(ret.reached_ghost_unseen, "reached_ghost", 0)

\* ------------------------------------------------ claims: the return scan
\* the step at which the episode running at step k ends, or the batch does
RECURSIVE C4_EpisodeEnd(_)
C4_EpisodeEnd(k) ==
    IF k = Len(arg.rewards) \/ arg.dones[k] = 1 THEN k ELSE C4_EpisodeEnd(k + 1)

RECURSIVE C4_DiscountedSum(_, _, _)
C4_DiscountedSum(k, j, m) ==
    IF j > m THEN 0
    ELSE Pow(arg.discountNum, j - k) * Pow(DiscountDen, m - j) * arg.rewards[j] * Scale
           + C4_DiscountedSum(k, j + 1, m)

\* C4: returns[T-1] = reward[T-1]; for k < T-1, returns[k] = reward[k] +
\* discount * returns[k+1] when done[k] = 0 and reward[k] when done[k] = 1;
\* so returns[k] is the discounted sum of the rewards from k to the first
\* done flag at or after k (or the end of the batch), and no later reward
\* contributes; a 1-step batch with done = 1 has returns[0] = reward[0].
C4_ReturnRecurrence ==
    fpc = "generate_and_process_batch" =>
        LET T == Len(arg.rewards)
            reward(k) == arg.rewards[k] * Scale
        IN  /\ Len(ret) = T
            /\ ret[T] = reward(T)
            /\ \A k \in 1..(T - 1) :
                  IF arg.dones[k] = 0
                  THEN DiscountDen * (ret[k] - reward(k)) = arg.discountNum * ret[k + 1]
                  ELSE ret[k] = reward(k)
            /\ \A k \in 1..T :
                  LET m == C4_EpisodeEnd(k)
                  IN  Pow(DiscountDen, m - k) * ret[k] = C4_DiscountedSum(k, k, m)
            /\ (T = 1 /\ arg.dones[1] = 1) => ret[1] = reward(1)

C4_Witness ==
    /\ fpc = "generate_and_process_batch"
    /\ Len(arg.rewards) = 3
    /\ arg.dones = <<0, 1, 0>>
    /\ arg.discountNum = 1
    /\ arg.rewards = <<Hundredths, -Hundredths, BiasedBonus>>
    /\ ret[1] * DiscountDen = (Hundredths * DiscountDen - Hundredths) * Scale
    /\ ret[2] = -Hundredths * Scale

\* ------------------------------------------------------- claims: train
C6_BadArguments ==
    \/ cfg.discountNum < 0
    \/ cfg.discountNum > DiscountDen
    \/ cfg.device_in_env_kwargs

\* C6: train aborts at once when discount < 0, discount > 1 or "device" is a
\* key of env_kwargs: before any directory is created, before the
\* environment or the networks are built, before any update; with
\* 0 <= discount <= 1 and no "device" key neither check aborts.
C6_ArgumentChecks ==
    pc # "idle" =>
        /\ C6_BadArguments =>
              /\ pc \in {"start", "aborted"}
              /\ ~dirs_created /\ ~built
              /\ n_batches = 0 /\ n_optimizer_steps = 0
              /\ files = <<>>
              /\ pc = "aborted" => fault.kind = "AssertionError"
        /\ ~C6_BadArguments => fault.kind # "AssertionError"

C6_Witness ==
    /\ pc = "aborted"
    /\ fault.kind = "AssertionError"
    /\ cfg.discountNum = DiscountDen + 1
    /\ ~cfg.device_in_env_kwargs

\* C7: get_end_stats of a batch with no entry of oversight # -1 raises a
\* division by zero and returns nothing; whether the batch is the training
\* batch of an update or the batch of an evaluation, the fault ends train:
\* no row is appended, nothing is persisted, and no step follows.
C7_NoCompletedEpisodeAborts ==
    [][ /\ (pc = "end_stats" /\ NumComplete(batch.infos) = 0) =>
              /\ pc' = "aborted"
              /\ fault' = [kind |-> "ZeroDivisionError", at |-> "get_end_stats"]
              /\ UNCHANGED <<metrics, eval_metrics, files, update_idx>>
        /\ (pc = "eval" /\ NumComplete(eval_batch'.infos) = 0) =>
              /\ pc' = "aborted"
              /\ fault' = [kind |-> "ZeroDivisionError", at |-> "eval"]
              /\ UNCHANGED <<metrics, eval_metrics, files, update_idx>>
        /\ pc = "aborted" => UNCHANGED vars
      ]_vars

C7_Witness ==
    /\ pc = "aborted"
    /\ fault = [kind |-> "ZeroDivisionError", at |-> "eval"]
    /\ NumComplete(eval_batch.infos) = 0
    /\ update_idx = 1
    /\ files = <<>>

C9_Labels ==
    IF cfg.has_get_diamond_policy
    THEN {"training_policy", "diamond", "ghost"}
    ELSE {"training_policy"}

C9_Due(u) == u % cfg.eval_freq = 0 \/ u = cfg.num_learning_updates - 1

C9_Rows(u, label) ==
    Cardinality({i \in DOMAIN eval_metrics :
                    /\ eval_metrics[i].update_idx = u
                    /\ eval_metrics[i].policy_type = label})

\* C9: with num_learning_updates >= 1 and eval_freq >= 1, every update does
\* one batch generation, then one optimizer step; update u is evaluated
\* exactly when u % eval_freq = 0 or u is the last update, and then every
\* evaluation policy is evaluated once, after the optimizer step of u,
\* appending one row tagged (u, label); update 0 and the last update are
\* evaluated.
C9_UpdateSchedule ==
    (pc \notin {"idle", "start", "makedirs", "build"}
       /\ cfg.num_learning_updates >= 1 /\ cfg.eval_freq >= 1) =>
        \* one generation, then one step, per update
        /\ n_optimizer_steps <= n_batches
        /\ n_batches <= n_optimizer_steps + 1
        /\ pc \in {"loop", "eval_results", "save_policy", "make_gif", "done"} =>
              n_batches = update_idx /\ n_optimizer_steps = update_idx
        /\ pc = "loss" => n_batches = update_idx + 1 /\ n_optimizer_steps = update_idx
        /\ pc \in {"end_stats", "eval", "policy_log"} =>
              n_batches = update_idx + 1 /\ n_optimizer_steps = update_idx + 1
        /\ metrics.update_idx = [k \in 1..n_optimizer_steps |-> k - 1]
        \* the rows
        /\ \A i \in DOMAIN eval_metrics :
              /\ eval_metrics[i].update_idx \in 0..(cfg.num_learning_updates - 1)
              /\ eval_metrics[i].policy_type \in C9_Labels
              /\ C9_Due(eval_metrics[i].update_idx)
              /\ eval_metrics[i].update_idx < n_optimizer_steps
        /\ \A u \in 0..(cfg.num_learning_updates - 1) : \A label \in C9_Labels :
              /\ C9_Rows(u, label) <= 1
              /\ (u < update_idx \/ (u = update_idx /\ pc = "policy_log")) =>
                    C9_Rows(u, label) = IF C9_Due(u) THEN 1 ELSE 0
        \* a run that returns has done every update
        /\ pc = "done" =>
              /\ update_idx = cfg.num_learning_updates
              /\ \A label \in C9_Labels :
                    /\ C9_Rows(0, label) = 1
                    /\ C9_Rows(cfg.num_learning_updates - 1, label) = 1

C9_Witness ==
    /\ pc = "done"
    /\ cfg.num_learning_updates = 3
    /\ cfg.eval_freq = 2
    /\ cfg.has_get_diamond_policy
    /\ Len(eval_metrics) = 6
    /\ n_optimizer_steps = 3

C10_AllFiles == <<"train_results.csv", "eval_results.csv", "policy.pt", "policy.gif">>

\* the loop was entered and has run out of updates
C10_UpdatesComplete ==
    /\ built
    /\ update_idx = cfg.num_learning_updates

C10_Written ==
    CASE pc = "loop" -> 0
      [] pc = "eval_results" -> 1
      [] pc = "save_policy" -> 2
      [] pc = "make_gif" -> 3
      [] pc = "done" -> 4
      [] OTHER -> -1

C10_PersistInOrder ==
    /\ pc # "aborted"
    /\ files = SubSeq(C10_AllFiles, 1, C10_Written)
    /\ pc # "done" => ENABLED Next

C10_NothingEarly ==
    /\ Len(files) <= 4
    /\ files = SubSeq(C10_AllFiles, 1, Len(files))
    /\ files # <<>> =>
          /\ update_idx = cfg.num_learning_updates
          /\ n_optimizer_steps = cfg.num_learning_updates
          /\ Len(metrics.end_stats) = cfg.num_learning_updates
    /\ (pc = "aborted" /\ update_idx < cfg.num_learning_updates) => files = <<>>

\* C10, as stated: for every num_learning_updates, 0 included, a run whose
\* updates all complete without fault persists the train CSV, the eval CSV,
\* the policy weights and the GIF, in that order; nothing is written before
\* the last update has completed, so a fault in an update leaves no CSV and
\* no weight file.
C10_PersistAfterAnyNumberOfUpdates ==
    pc # "idle" =>
        /\ C10_NothingEarly
        /\ C10_UpdatesComplete => C10_PersistInOrder

\* C10, amended: the same for every num_learning_updates >= 1 and every
\* env_kwargs that holds oversight_prob.
C10_PersistAfterAtLeastOneUpdate ==
    pc # "idle" =>
        /\ C10_NothingEarly
        /\ (C10_UpdatesComplete /\ cfg.num_learning_updates >= 1
              /\ cfg.has_oversight_prob) => C10_PersistInOrder

C10_Witness ==
    /\ pc = "done"
    /\ files = C10_AllFiles
    /\ cfg.num_learning_updates = 2

====
